---- MODULE Spec2Model ----
(***************************************************************************)
(* Model of the Construction Claims Notification Copilot (src/app.py).     *)
(*                                                                         *)
(* Text is modelled as a sequence of one-character strings, so that        *)
(* str.lower, the substring test (in), str.replace and str.strip are       *)
(* computed character by character as Python computes them.                *)
(***************************************************************************)
EXTENDS Integers, Sequences, FiniteSets, TLC

VARIABLES
    \* --- create_calendar_file's deadline heuristic, run on one text -------
    limit_input,      \* the time_limit text handed to the heuristic
    days_out,         \* days_to_add computed for it (None before the run)
    \* --- analyze_contract, run on one model response ----------------------
    embedded,         \* the JSON object J the model answered with
    response_text,    \* response.text: J bare or wrapped in fence markers
    returned,         \* what analyze_contract returned (None before)
    \* --- st.session_state -------------------------------------------------
    password,         \* session_state["password"] (the text_input's key)
    password_correct, \* session_state["password_correct"]
    analysis,         \* session_state['analysis']
    selected_clause,  \* session_state['selected_clause']
    draft_mode,       \* session_state['draft_mode']
    current_draft,    \* session_state['current_draft']
    \* --- the page and its surroundings ------------------------------------
    uploaded_file,    \* the file_uploader's current file
    ics_data,         \* the payload of the last script run's calendar export
    run,              \* what the last script run did
    \* --- history (not program state) --------------------------------------
    secret_entered,   \* the correct secret was entered in this session
    wrong_attempts,   \* wrong secrets entered at the prompt now shown
    failed_before,    \* an analysis has failed in this session
    last_result,      \* value returned by the last completed analyze_contract
    draft_for         \* the clause current_draft was generated for

deadline_vars == <<limit_input, days_out>>
parse_vars == <<embedded, response_text, returned>>
session_vars == <<password, password_correct, analysis, selected_clause,
                  draft_mode, current_draft, uploaded_file, ics_data,
                  run, secret_entered, wrong_attempts, failed_before,
                  last_result, draft_for>>
vars == <<deadline_vars, parse_vars, session_vars>>

\* An optional value: None is a key that is not in st.session_state (or a
\* result not computed yet), Some(x) a key holding x.
None == <<>>
Some(x) == <<x>>

(***************************************************************************)
(* Bounds of the model.                                                    *)
(***************************************************************************)
MaxLen == 3        \* longest enumerated time_limit text
MaxStr == 3        \* longest enumerated JSON string value
MaxWrong == 2      \* wrong secrets counted
MaxClock == 1      \* latest hour datetime.now() may return

(***************************************************************************)
(* Text helpers.                                                           *)
(***************************************************************************)
Uppers == <<"A","B","C","D","E","F","G","H","I","J","K","L","M",
            "N","O","P","Q","R","S","T","U","V","W","X","Y","Z">>
Lowers == <<"a","b","c","d","e","f","g","h","i","j","k","l","m",
            "n","o","p","q","r","s","t","u","v","w","x","y","z">>

\* str.lower on one character
LowerChar(c) ==
    IF \E i \in 1..Len(Uppers) : Uppers[i] = c
    THEN Lowers[CHOOSE i \in 1..Len(Uppers) : Uppers[i] = c]
    ELSE c

\* str.upper on one character (used to build inputs only)
UpperChar(c) ==
    IF \E i \in 1..Len(Lowers) : Lowers[i] = c
    THEN Uppers[CHOOSE i \in 1..Len(Lowers) : Lowers[i] = c]
    ELSE c

\* str.lower
LowerStr(s) == [i \in 1..Len(s) |-> LowerChar(s[i])]

\* Python's substring test, sub in s
Contains(s, sub) ==
    \E i \in 1..(Len(s) - Len(sub) + 1) : SubSeq(s, i, i + Len(sub) - 1) = sub

\* str(): the time_limit values of the model are JSON strings, which str()
\* returns as they are
Str(v) == v

\* all texts over alphabet A of length at most n
SeqsUpTo(A, n) == UNION {[1..k -> A] : k \in 0..n}

(***************************************************************************)
(* The deadline heuristic of create_calendar_file.                         *)
(***************************************************************************)
DefaultDays == 7

T10 == <<"1","0">>
T5 == <<"5">>
T3 == <<"3">>
T24 == <<"2","4">>
TImmediately == <<"i","m","m","e","d","i","a","t","e","l","y">>

\* a plausible slip: "5" tested before "10"
DaysToAdd_FiveFirst(time_limit) ==
    LET limit_text == LowerStr(Str(time_limit)) IN
    IF Contains(limit_text, T5) THEN 5
    ELSE IF Contains(limit_text, T10) THEN 10
    ELSE IF Contains(limit_text, T3) THEN 3
    ELSE IF Contains(limit_text, T24) THEN 1
    ELSE IF Contains(limit_text, TImmediately) THEN 0
    ELSE DefaultDays

DaysToAdd(time_limit) ==
    LET limit_text == LowerStr(Str(time_limit)) IN
    IF Contains(limit_text, T10) THEN 10
    ELSE IF Contains(limit_text, T5) THEN 5
    ELSE IF Contains(limit_text, T3) THEN 3
    ELSE IF Contains(limit_text, T24) THEN 1
    ELSE IF Contains(limit_text, TImmediately) THEN 0
    ELSE DefaultDays

(***************************************************************************)
(* JSON values and the model's responses.                                  *)
(*                                                                         *)
(* A dict is a set of <<key, value>> pairs; {} is the empty set.  A        *)
(* response text is a sequence of characters in which a clause object is   *)
(* one lexeme ("C11" stands for the JSON text of that clause, a run of     *)
(* characters with no backtick in it).  The documents of the grammar are   *)
(*   { "owner_name" "project_name" [ clause ... ] }                        *)
(***************************************************************************)
Txt10Working == <<"1","0"," ","W","o","r","k","i","n","g"," ","D","a","y","s">>
TxtImmediately == <<"I","m","m","e","d","i","a","t","e","l","y">>
TxtWithoutDelay == <<"W","i","t","h","o","u","t"," ","D","e","l","a","y">>
Txt24Hours == <<"2","4"," ","h","o","u","r","s">>

ClauseNames == {"C11", "C12", "C21", "C22"}

ClauseOf(name) ==
    CASE name = "C11" -> [clause_id |-> "GC 6.5.1", topic |-> "Delays",
                          trigger_event |-> "Delay by Owner",
                          time_limit |-> Txt10Working, risk_level |-> "High"]
      [] name = "C12" -> [clause_id |-> "GC 6.6.1", topic |-> "Claims",
                          trigger_event |-> "Event giving rise to claim",
                          time_limit |-> TxtImmediately, risk_level |-> "High"]
      [] name = "C21" -> [clause_id |-> "GC 7.1", topic |-> "Changes",
                          trigger_event |-> "Change Directive",
                          time_limit |-> TxtWithoutDelay, risk_level |-> "Medium"]
      [] name = "C22" -> [clause_id |-> "GC 9.2", topic |-> "Toxic Substances",
                          trigger_event |-> "Discovery on site",
                          time_limit |-> Txt24Hours, risk_level |-> "Low"]

MakeJ(owner, project, names) ==
    [metadata |-> {<<"owner_name", owner>>, <<"project_name", project>>},
     clauses |-> [i \in 1..Len(names) |-> ClauseOf(names[i])]]

\* dict.get(key, default)
DictGet(d, key, default) ==
    IF \E p \in d : p[1] = key
    THEN (CHOOSE p \in d : p[1] = key)[2]
    ELSE default

\* {"metadata": {}, "clauses": []}
EmptyResult == [metadata |-> {}, clauses |-> <<>>]

Quote == "\""
\* the character U+0060 (written by name: the lexer reserves the character)
Backtick == "BACKTICK"
Whitespace == {" ", "\n", "\t"}
Fence == <<Backtick, Backtick, Backtick>>
FenceJson == Fence \o <<"j","s","o","n">>

\* the JSON text of J, as the remote model writes it
JsonText(owner, project, names) ==
    <<"{", Quote>> \o owner \o <<Quote, Quote>> \o project \o <<Quote, "[">>
        \o names \o <<"]", "}">>

\* the ways the remote model presents a JSON text
Wrappings == {"bare", "json_fence", "plain_fence"}
Wrap(how, text) ==
    CASE how = "bare" -> text
      [] how = "json_fence" -> FenceJson \o <<"\n">> \o text \o <<"\n">> \o Fence
      [] how = "plain_fence" -> Fence \o <<"\n">> \o text \o <<"\n">> \o Fence

\* str.replace(pat, ""): leftmost occurrences, left to right, not overlapping
RECURSIVE Remove(_, _)
Remove(s, pat) ==
    IF Len(s) < Len(pat) THEN s
    ELSE IF SubSeq(s, 1, Len(pat)) = pat
         THEN Remove(SubSeq(s, Len(pat) + 1, Len(s)), pat)
         ELSE <<s[1]>> \o Remove(Tail(s), pat)

\* str.strip()
Strip(s) ==
    LET keep == {i \in 1..Len(s) : s[i] \notin Whitespace} IN
    IF keep = {} THEN <<>>
    ELSE SubSeq(s, CHOOSE i \in keep : \A j \in keep : i <= j,
                   CHOOSE i \in keep : \A j \in keep : j <= i)

\* index of the first Quote after position i, 0 when there is none
NextQuote(t, i) ==
    LET qs == {j \in (i + 1)..Len(t) : t[j] = Quote} IN
    IF qs = {} THEN 0 ELSE CHOOSE j \in qs : \A k \in qs : j <= k

\* json.loads on the documents of the grammar: Some(value), or None where
\* json.loads raises JSONDecodeError
JsonLoads(t) ==
    LET n == Len(t)
        q1 == 2
        q2 == NextQuote(t, q1)
        q3 == q2 + 1
        q4 == NextQuote(t, q3)
    IN  IF /\ n >= 8
           /\ t[1] = "{" /\ t[q1] = Quote
           /\ q2 > 0 /\ q3 <= n /\ t[q3] = Quote
           /\ q4 > 0 /\ q4 + 3 <= n /\ t[q4 + 1] = "["
           /\ \A i \in (q4 + 2)..(n - 2) : t[i] \in ClauseNames
           /\ t[n - 1] = "]" /\ t[n] = "}"
        THEN Some(MakeJ(SubSeq(t, q1 + 1, q2 - 1), SubSeq(t, q3 + 1, q4 - 1),
                        SubSeq(t, q4 + 2, n - 2)))
        ELSE None

\* What model.generate_content did: it raised, or it returned response.text
CallFailed == [ok |-> FALSE, text |-> <<>>]
CallReturned(text) == [ok |-> TRUE, text |-> text]

\* a plausible slip: no except clause, the failure leaves analyze_contract
analyze_contract_Raises(resp) ==
    LET clean_json == Strip(Remove(Remove(resp.text, FenceJson), Fence))
        parsed == JsonLoads(clean_json)
    IN  IF resp.ok /\ parsed # None
        THEN [raised |-> FALSE, value |-> parsed[1], error |-> FALSE, calls |-> 1]
        ELSE [raised |-> TRUE, value |-> EmptyResult, error |-> FALSE, calls |-> 1]

\* analyze_contract (the prompt is the analyst instruction plus the contract
\* text; resp is the remote model's answer to it)
analyze_contract(resp) ==
    LET clean_json == Strip(Remove(Remove(resp.text, FenceJson), Fence))
        parsed == JsonLoads(clean_json)
    IN  IF resp.ok /\ parsed # None
        THEN [raised |-> FALSE, value |-> parsed[1], error |-> FALSE, calls |-> 1]
        ELSE [raised |-> FALSE, value |-> EmptyResult, error |-> TRUE, calls |-> 1]

(***************************************************************************)
(* The password gate.                                                      *)
(***************************************************************************)
Secret == "app_password"                       \* st.secrets["app_password"]
Passwords == {Secret, "guess1", "guess2"}      \* what a user may type

\* st.session_state.get(key, default) on an optional value
StateGet(v, default) == IF v = None THEN default ELSE v[1]

\* a plausible slip: the gate tests that the key is there, not its value
check_password_KeyOnly(pc) == pc # None

\* check_password: True when the gate lets the script go on
check_password(pc) == StateGet(pc, FALSE)

\* password_entered, the text_input's on_change callback, on the typed text p:
\* the new password_correct and password keys
password_entered(p) ==
    IF p = Secret
    THEN [password_correct |-> Some(TRUE), password |-> None]
    ELSE [password_correct |-> Some(FALSE), password |-> Some(p)]

(***************************************************************************)
(* Contracts, and what the collaborators answer.                           *)
(***************************************************************************)
NoFile == "none"
Docs == {"d1", "d2"}

DocOwner(d) == IF d = "d1" THEN <<"O","1">> ELSE <<"O","2">>
DocProject(d) == IF d = "d1" THEN <<"P","1">> ELSE <<"P","2">>
DocClauses(d) == IF d = "d1" THEN <<"C11", "C12">> ELSE <<"C21", "C22">>
DocJ(d) == MakeJ(DocOwner(d), DocProject(d), DocClauses(d))
DocText(d) == JsonText(DocOwner(d), DocProject(d), DocClauses(d))

\* extract_text_from_pdf: None when PdfReader raises (after st.error), else
\* the text of the pages, which is "" for a scan with no text layer
ExtractOutcomes(d) == {None, Some(""), Some(d)}

\* Python truthiness of the extracted text (if text:)
Truthy(text) == text # None /\ text[1] # ""

\* the remote model's answers to the analyst prompt for contract d: the call
\* raises, or returns J (bare or fenced), or returns text that is not JSON
Truncated(t) == SubSeq(t, 1, Len(t) - 1)
AnalystAnswers(d) ==
    {CallFailed, CallReturned(Truncated(DocText(d)))}
        \cup {CallReturned(Wrap(w, DocText(d))) : w \in Wrappings}

\* the remote model's answers to the drafter prompt
Letter1 == <<"\n","D","e","a","r"," ","O","w","n","e","r","\n">>
Letter2 == <<"P","l","e","a","s","e"," ","b","e"," ","a","d","v","i","s","e","d">>
DrafterAnswers == {CallFailed, CallReturned(Letter1), CallReturned(Letter2)}

(***************************************************************************)
(* generate_notice_draft and create_calendar_file.                         *)
(***************************************************************************)
\* DRAFTER_PROMPT.format(...)
DrafterPrompt(clause, inputs, meta) ==
    [date_str |-> inputs.date, owner |-> meta.owner,
     recipient |-> meta.recipient, project |-> meta.project,
     contract_num |-> meta.contract_num, clause_id |-> clause.clause_id,
     topic |-> clause.topic, cause |-> inputs.cause, effect |-> inputs.effect]

\* a plausible slip: the response is tidied before it is returned
generate_notice_draft_Stripped(clause, inputs, meta, resp) ==
    [raised |-> ~resp.ok, text |-> Strip(resp.text), calls |-> 1,
     prompt |-> DrafterPrompt(clause, inputs, meta)]

\* generate_notice_draft; resp is the remote model's answer to the prompt.
\* No try: a failed call leaves the function by the exception.
generate_notice_draft(clause, inputs, meta, resp) ==
    [raised |-> ~resp.ok, text |-> resp.text, calls |-> 1,
     prompt |-> DrafterPrompt(clause, inputs, meta)]

HoursPerDay == 24
\* timedelta(days=-1), in hours
AlarmTrigger == -HoursPerDay

\* f"NOTICE DUE: {item['topic']} ({item['clause_id']})"
EventName(item) == <<"NOTICE DUE: ", item.topic, " (", item.clause_id, ")">>

\* a plausible slip: the alarm is set one day after the deadline
NewEvent_AlarmAfter(item, now, uid) ==
    [name |-> EventName(item),
     begin |-> now + HoursPerDay * DaysToAdd(item.time_limit),
     description |-> [topic |-> item.topic, clause |-> item.clause_id,
                      trigger |-> item.trigger_event, rule |-> item.time_limit],
     alarms |-> <<HoursPerDay>>,
     uid |-> uid,
     now |-> now]

\* one iteration of create_calendar_file's loop: the event built for item at
\* time now (now is kept in the record for reference; it is not serialized)
NewEvent(item, now, uid) ==
    [name |-> EventName(item),
     begin |-> now + HoursPerDay * DaysToAdd(item.time_limit),
     description |-> [topic |-> item.topic, clause |-> item.clause_id,
                      trigger |-> item.trigger_event, rule |-> item.time_limit],
     alarms |-> <<>> \o <<AlarmTrigger>>,
     uid |-> uid,
     now |-> now]

\* when an event's reminder fires
ReminderTime(e, k) == e.begin + e.alarms[k]

Perms(n) == {p \in [1..n -> 1..n] : \A i, j \in 1..n : p[i] = p[j] => i = j}

\* The payloads create_calendar_file may return.  c.events is a set
\* (c.events.add), and serialize() writes the events in the set's iteration
\* order, which follows the hash of each event's random uid and not the order
\* of insertion: position k of the payload holds the event of clause p[k].
create_calendar_file(clauses, nows) ==
    {[k \in 1..Len(clauses) |-> NewEvent(clauses[p[k]], nows[p[k]], k)] :
        p \in Perms(Len(clauses))}

(***************************************************************************)
(* The page: one action per script run that a user event starts.           *)
(***************************************************************************)
Meta(data) == data.metadata        \* data.get('metadata', {})
Clauses(data) == data.clauses      \* data.get('clauses', [])

\* a plausible slip: a result with no clauses keeps the clauses already held
StoreAnalysis_Merge(old, data) ==
    IF old # None /\ data.clauses = <<>>
    THEN Some([metadata |-> data.metadata, clauses |-> old[1].clauses])
    ELSE Some(data)

\* st.session_state['analysis'] = data
StoreAnalysis(old, data) == Some(data)

Idle == [act |-> "none", outcome |-> "none", cause |-> "none", calls |-> 0,
         error |-> FALSE, doc |-> NoFile, response |-> <<>>,
         draft_before |-> None]

DraftingShown == StateGet(draft_mode, FALSE) /\ selected_clause # None

SessionInit ==
    /\ password = None
    /\ password_correct = None
    /\ analysis = None
    /\ selected_clause = None
    /\ draft_mode = None
    /\ current_draft = None
    /\ uploaded_file = NoFile
    /\ ics_data = None
    /\ run = Idle
    /\ secret_entered = FALSE
    /\ wrong_attempts = 0
    /\ failed_before = FALSE
    /\ last_result = None
    /\ draft_for = None

DeadlineIdle == limit_input = <<>> /\ days_out = None
ParseIdle == embedded = EmptyResult /\ response_text = <<>> /\ returned = None

\* The user types p in the password box (shown while the gate is closed);
\* on_change runs password_entered, then the script runs.
EnterPassword ==
    /\ ~check_password(password_correct)
    /\ \E p \in Passwords :
        /\ password # Some(p)
        /\ LET new == password_entered(p) IN
            /\ password_correct' = new.password_correct
            /\ password' = new.password
        /\ secret_entered' = (secret_entered \/ p = Secret)
        /\ wrong_attempts' = IF p = Secret THEN 0
                             ELSE IF wrong_attempts = MaxWrong THEN MaxWrong
                             ELSE wrong_attempts + 1
        /\ run' = [Idle EXCEPT !.act = "password",
                               !.outcome = IF p = Secret THEN "ok" ELSE "wrong"]
    /\ ics_data' = None
    /\ UNCHANGED <<analysis, selected_clause, draft_mode, current_draft,
                   uploaded_file, failed_before, last_result, draft_for>>
    /\ UNCHANGED <<deadline_vars, parse_vars>>

\* The user puts a file in the uploader, or takes it out.
Upload ==
    /\ check_password(password_correct)
    /\ \E f \in Docs \cup {NoFile} :
        /\ f # uploaded_file
        /\ uploaded_file' = f
    /\ run' = [Idle EXCEPT !.act = "upload", !.outcome = "ok"]
    /\ ics_data' = None
    /\ UNCHANGED <<password, password_correct, analysis, selected_clause,
                   draft_mode, current_draft, secret_entered,
                   wrong_attempts, failed_before, last_result, draft_for>>
    /\ UNCHANGED <<deadline_vars, parse_vars>>

\* The user presses "Analyze Contract".
Analyze ==
    /\ check_password(password_correct)
    /\ uploaded_file # NoFile
    /\ \E text \in ExtractOutcomes(uploaded_file) :
        IF ~Truthy(text)
        THEN /\ run' = [Idle EXCEPT !.act = "analyze", !.outcome = "skipped",
                                    !.error = (text = None),
                                    !.doc = uploaded_file]
             /\ UNCHANGED <<analysis, last_result, failed_before>>
        ELSE \E resp \in AnalystAnswers(text[1]) :
            LET r == analyze_contract(resp) IN
            /\ run' = [Idle EXCEPT
                         !.act = "analyze",
                         !.outcome = IF r.raised THEN "raised"
                                     ELSE IF r.error THEN "failed" ELSE "ok",
                         !.cause = IF resp.ok THEN "response" ELSE "call",
                         !.calls = r.calls,
                         !.error = r.error,
                         !.doc = uploaded_file,
                         !.response = resp.text]
            /\ failed_before' = (failed_before \/ r.raised \/ r.error)
            /\ IF r.raised
               THEN UNCHANGED <<analysis, last_result>>
               ELSE /\ analysis' = StoreAnalysis(analysis, r.value)
                    /\ last_result' = Some(r.value)
    /\ ics_data' = None
    /\ UNCHANGED <<password, password_correct, selected_clause, draft_mode,
                   current_draft, uploaded_file, secret_entered,
                   wrong_attempts, draft_for>>
    /\ UNCHANGED <<deadline_vars, parse_vars>>

\* The user presses "Draft Notice" in the expander of clause number index.
DraftNotice ==
    /\ check_password(password_correct)
    /\ analysis # None
    /\ \E index \in 1..Len(Clauses(analysis[1])) :
        /\ selected_clause' = Some(Clauses(analysis[1])[index])
        /\ draft_mode' = Some(TRUE)
    /\ run' = [Idle EXCEPT !.act = "draft_notice", !.outcome = "ok"]
    /\ ics_data' = None
    /\ UNCHANGED <<password, password_correct, analysis, current_draft,
                   uploaded_file, secret_entered, wrong_attempts,
                   failed_before, last_result, draft_for>>
    /\ UNCHANGED <<deadline_vars, parse_vars>>

\* The user presses "Download Deadlines to Outlook/Cal (.ics)".  Each loop
\* iteration reads datetime.now() (in hours): the first reads first, and
\* the clock may have moved by skew when the later ones read it.
ExportCalendar ==
    /\ check_password(password_correct)
    /\ analysis # None
    /\ \E first \in 0..MaxClock :
       \E skew \in 0..(MaxClock - first) :
        LET clauses == Clauses(analysis[1])
            nows == [i \in 1..Len(clauses) |->
                        IF i = 1 THEN first ELSE first + skew]
        IN  \E payload \in create_calendar_file(clauses, nows) :
                ics_data' = Some(payload)
    /\ run' = [Idle EXCEPT !.act = "export", !.outcome = "ok"]
    /\ UNCHANGED <<password, password_correct, analysis, selected_clause,
                   draft_mode, current_draft, uploaded_file, secret_entered,
                   wrong_attempts, failed_before, last_result, draft_for>>
    /\ UNCHANGED <<deadline_vars, parse_vars>>

\* The user submits draft_form ("Generate Professional Draft").
GenerateDraft ==
    /\ check_password(password_correct)
    /\ analysis # None
    /\ DraftingShown
    /\ \E owner_in \in {DictGet(Meta(analysis[1]), "owner_name", <<>>),
                        <<"X">>},
          resp \in DrafterAnswers :
        LET target == selected_clause[1]
            meta == Meta(analysis[1])
            final_meta == [owner |-> owner_in,
                           recipient |-> "Project Manager",
                           project |-> DictGet(meta, "project_name", <<>>),
                           contract_num |-> DictGet(meta, "contract_number", <<>>)]
            inputs == [cause |-> "cause", effect |-> "effect", date |-> "date"]
            r == generate_notice_draft(target, inputs, final_meta, resp)
        IN  /\ run' = [Idle EXCEPT
                         !.act = "generate",
                         !.outcome = IF r.raised THEN "raised" ELSE "ok",
                         !.cause = IF resp.ok THEN "response" ELSE "call",
                         !.calls = r.calls,
                         !.response = resp.text,
                         !.draft_before = current_draft]
            /\ IF r.raised
               THEN UNCHANGED <<current_draft, draft_for>>
               ELSE /\ current_draft' = Some(r.text)
                    /\ draft_for' = Some(target)
    /\ ics_data' = None
    /\ UNCHANGED <<password, password_correct, analysis, selected_clause,
                   draft_mode, uploaded_file, secret_entered,
                   wrong_attempts, failed_before, last_result>>
    /\ UNCHANGED <<deadline_vars, parse_vars>>

Init == SessionInit /\ DeadlineIdle /\ ParseIdle

Next ==
    \/ EnterPassword
    \/ Upload
    \/ Analyze
    \/ DraftNotice
    \/ ExportCalendar
    \/ GenerateDraft

Spec == Init /\ [][Next]_vars

(***************************************************************************)
(* The deadline heuristic on bounded texts.                                *)
(***************************************************************************)
DeadlineAlphabet == {"1", "0", "5", "3", "2", "4", "d"}

\* "immediately" in every mix of letter cases
CasedImmediately ==
    {[i \in 1..Len(TImmediately) |->
        IF m[i] THEN UpperChar(TImmediately[i]) ELSE TImmediately[i]] :
            m \in [1..Len(TImmediately) -> BOOLEAN]}

DeadlineSamples ==
    {Txt10Working, TxtImmediately, TxtWithoutDelay, Txt24Hours,
     TxtImmediately \o <<" ","o","r"," ","5"," ","d","a","y","s">>,
     <<"W","i","t","h","i","n"," ","2","4","h"," ","o","f"," ","1","0">>}

DeadlineInputs ==
    SeqsUpTo(DeadlineAlphabet, MaxLen) \cup CasedImmediately \cup DeadlineSamples

DeadlineInit ==
    /\ limit_input \in DeadlineInputs
    /\ days_out = None
    /\ SessionInit /\ ParseIdle

\* create_calendar_file computes days_to_add for the text
Derive ==
    /\ days_out = None
    /\ days_out' = Some(DaysToAdd(limit_input))
    /\ UNCHANGED <<limit_input, parse_vars, session_vars>>

DeadlineNext == Derive

SpecDeadline == DeadlineInit /\ [][DeadlineNext]_vars

(***************************************************************************)
(* analyze_contract on bounded responses.                                  *)
(***************************************************************************)
StringAlphabet == {Backtick, "a"}

ParseInit ==
    /\ \E project \in SeqsUpTo(StringAlphabet, MaxStr),
          names \in {<<>>, <<"C11">>, <<"C11", "C12">>},
          w \in Wrappings :
        /\ embedded = MakeJ(<<"O">>, project, names)
        /\ response_text = Wrap(w, JsonText(<<"O">>, project, names))
    /\ returned = None
    /\ SessionInit /\ DeadlineIdle

\* analyze_contract runs on the response
ParseResponse ==
    /\ returned = None
    /\ returned' = Some(analyze_contract(CallReturned(response_text)).value)
    /\ UNCHANGED <<embedded, response_text, deadline_vars, session_vars>>

ParseNext == ParseResponse

SpecParse == ParseInit /\ [][ParseNext]_vars

(***************************************************************************)
(* Properties.                                                             *)
(***************************************************************************)

\* The token list of the deadline rule, in priority order.
TokenTable ==
    <<[token |-> T10, days |-> 10], [token |-> T5, days |-> 5],
      [token |-> T3, days |-> 3], [token |-> T24, days |-> 1],
      [token |-> TImmediately, days |-> 0]>>

\* token occurs in text, letter case ignored
MatchesCI(text, token) ==
    \E i \in 1..(Len(text) - Len(token) + 1) :
        \A k \in 1..Len(token) : LowerChar(text[i + k - 1]) = LowerChar(token[k])

\* first match in priority order wins, 7 when nothing matches
PriorityOffset(text) ==
    LET hits == {j \in 1..Len(TokenTable) : MatchesCI(text, TokenTable[j].token)}
    IN  IF hits = {} THEN 7
        ELSE TokenTable[CHOOSE j \in hits : \A h \in hits : j <= h].days

\* C1: the day offset computed for a time_limit text is the result of the
\* case-insensitive substring search in the order "10", "5", "3", "24",
\* "immediately", first match wins, 7 when no token occurs; a text holding
\* "10" gives 10, "immediately" in any letter case gives 0, a text with no
\* token gives 7.
C1_DeadlineOffset ==
    days_out # None =>
        /\ days_out[1] = PriorityOffset(limit_input)
        /\ MatchesCI(limit_input, T10) => days_out[1] = 10
        /\ limit_input \in CasedImmediately => days_out[1] = 0
        /\ (\A j \in 1..Len(TokenTable) :
                ~MatchesCI(limit_input, TokenTable[j].token)) => days_out[1] = 7

\* a text holding both "10" and "5" has been given its offset
C1_Witness ==
    /\ days_out = Some(10)
    /\ Contains(limit_input, T5)
    /\ Contains(limit_input, T10)

\* C2: the exported payload holds one event per clause and event N's title
\* is built from clause N's topic and clause_id, for every position N.
C2_OrderPreserved ==
    ics_data # None =>
        LET clauses == Clauses(analysis[1]) IN
        /\ Len(ics_data[1]) = Len(clauses)
        /\ \A n \in 1..Len(clauses) : ics_data[1][n].name = EventName(clauses[n])

\* C3: every exported event carries exactly one alarm, which fires one day
\* before the event's due date, and the due date is the generation time plus
\* the derived offset; "10 Working Days" is due 10 days after generation time
\* with its reminder 9 days after it.
C3_ReminderDayBefore ==
    ics_data # None =>
        \A n \in 1..Len(ics_data[1]) :
            LET e == ics_data[1][n] IN
            /\ Len(e.alarms) = 1
            /\ e.begin = e.now + 24 * PriorityOffset(e.description.rule)
            /\ ReminderTime(e, 1) = e.begin - 24
            /\ e.description.rule = Txt10Working =>
                    /\ e.begin = e.now + 240
                    /\ ReminderTime(e, 1) = e.now + 216

\* an export holding the event of the "10 Working Days" clause
C3_Witness ==
    /\ ics_data # None
    /\ \E n \in 1..Len(ics_data[1]) :
        /\ ics_data[1][n].description.rule = Txt10Working
        /\ ics_data[1][n].now = 1

\* C4: given J bare or wrapped in fence markers, analyze_contract returns a
\* structure equal to J.
C4_RoundTrip == returned # None => returned[1] = embedded

\* C5: after a failed model call or an unparseable response, analyze_contract
\* has not raised, an error was reported, the result stored is
\* {metadata: {}, clauses: []} and one model call was made; an Analyze action
\* on a good response stores that response's metadata and clauses, whatever
\* failed before.
C5_FailureIsEmptyResult ==
    /\ run.act = "analyze" /\ run.outcome \notin {"skipped", "ok"} =>
            /\ run.outcome = "failed"
            /\ run.error
            /\ run.calls = 1
            /\ analysis = Some(EmptyResult)
            /\ ENABLED Analyze
    /\ run.act = "analyze" /\ run.outcome = "ok" =>
            analysis = Some(DocJ(run.doc))

\* a good analysis stored after an analysis that failed
C5_Witness ==
    /\ failed_before
    /\ run.act = "analyze" /\ run.outcome = "ok"
    /\ analysis = Some(DocJ("d2"))

\* C6: the draft held in session state, shown under the selected clause's
\* id, was generated for the selected clause.
C6_DraftOfSelectedClause ==
    DraftingShown /\ current_draft # None => draft_for = selected_clause

\* C7: the metadata and the clause list read from session state come from
\* the same completed analysis.
C7_AtomicReplace ==
    analysis # None =>
        /\ last_result # None
        /\ Meta(analysis[1]) = last_result[1].metadata
        /\ Clauses(analysis[1]) = last_result[1].clauses

\* a failed analysis has replaced the result of an earlier good one
C7_Witness ==
    /\ analysis = Some(EmptyResult)
    /\ selected_clause # None

\* C8: nothing behind the gate has run unless the correct secret was entered;
\* a wrong secret leaves the gate closed and the prompt shown, whatever the
\* number of earlier wrong attempts; once the secret was entered the gate
\* stays open.
C8_PasswordGate ==
    /\ (\/ run.act \notin {"none", "password"}
        \/ analysis # None \/ ics_data # None \/ current_draft # None
        \/ selected_clause # None \/ uploaded_file # NoFile) => secret_entered
    /\ ~secret_entered =>
            /\ ~check_password(password_correct)
            /\ ENABLED EnterPassword
    /\ secret_entered => check_password(password_correct)

\* the gate is still closed after the second wrong secret
C8_Witness ==
    /\ wrong_attempts = MaxWrong
    /\ run.act = "password" /\ run.outcome = "wrong"
    /\ ~check_password(password_correct)

\* C9: a Generate Draft action calls the model once; on success the stored
\* draft is the raw response; on failure the error leaves
\* generate_notice_draft and the stored draft keeps its earlier value.
C9_DraftRawOrUnchanged ==
    run.act = "generate" =>
        /\ run.calls = 1
        /\ run.cause = "response" =>
                run.outcome = "ok" /\ current_draft = Some(run.response)
        /\ run.cause = "call" =>
                run.outcome = "raised" /\ current_draft = run.draft_before

\* a failed drafting call after a draft was stored
C9_Witness ==
    /\ run.act = "generate" /\ run.outcome = "raised"
    /\ current_draft = Some(Letter1)

\* C10: while the drafting section is shown, the selected clause is an
\* element of the clause list of the analysis held in session state.
C10_SelectedInCurrentAnalysis ==
    DraftingShown =>
        /\ analysis # None
        /\ \E i \in 1..Len(Clauses(analysis[1])) :
                Clauses(analysis[1])[i] = selected_clause[1]

====
